---- MODULE Spec2Model ----
(***************************************************************************)
(* Model of the AI agent router: the Result Reporter of app/agent.py       *)
(* (process_query_with_agent_streaming), the Arithmetic Evaluator of       *)
(* app/tools/math_tool.py, the Weather Lookup of app/tools/weather.py and  *)
(* the General Answer Generator of app/tools/llm_tool.py.                  *)
(*                                                                         *)
(* A Python string is modelled as a sequence of fragments: an f-string is  *)
(* the concatenation of its literal pieces and of the values it            *)
(* interpolates, "" is the empty sequence, and "s contains m" is "m is one *)
(* of the fragments of s".                                                 *)
(***************************************************************************)
EXTENDS Integers, Sequences, FiniteSets, TLC

VARIABLES
    \* ---- app/agent.py: one run of process_query_with_agent_streaming ----
    query,            \* the query argument
    pc,               \* "idle" | "stream" (inside the for loop) | "done"
    tool_used,        \* local tool_used
    final_result,     \* local final_result
    tool_identified,  \* local tool_identified
    chunks,           \* the chunks agent_executor.stream() has handed over so far
    ending,           \* how the loop was left: "none" | "output" | "finish" | "exhausted" | "exception"
    emitted,          \* the lines the generator has yielded
    escaped,          \* TRUE when an exception left the generator
    \* ---- app/tools/math_tool.py: one call of evaluate_math_expression ----
    expression,       \* the expression argument, a sequence of characters
    given,            \* the tokens and the whitespace layout the expression was written from
    mathPc,           \* "idle" | "call" | "returned"
    mathOut,          \* what the call returned (or that it raised)
    \* ---- app/tools/weather.py and app/tools/llm_tool.py ----
    OPENWEATHER_API_KEY,  \* module-level key of weather.py
    GOOGLE_API_KEY,       \* module-level key of llm_tool.py
    toolCalls,            \* tool calls made so far
    httpRequests,         \* the q parameter of every requests.get issued, in order
    llmInvocations,       \* the prompt of every llm.invoke issued, in order
    lastCall              \* the last tool call: its arguments, the provider's behaviour, its outcome

agentVars == <<query, pc, tool_used, final_result, tool_identified, chunks, ending, emitted, escaped>>
mathVars == <<expression, given, mathPc, mathOut>>
toolVars == <<OPENWEATHER_API_KEY, GOOGLE_API_KEY, toolCalls, httpRequests, llmInvocations, lastCall>>
vars == <<agentVars, mathVars, toolVars>>

\* ------------------------------------------------------------------------
\* Bounds of the model
\* ------------------------------------------------------------------------
MaxChunks == 3          \* chunks one run of the event stream hands over

\* ------------------------------------------------------------------------
\* app/agent.py
\* ------------------------------------------------------------------------
RegisteredTools == {"WeatherTool", "MathTool", "LLMTool"}
\* A tool name the model produced that is not in the registry.
UnknownTools == {"FooTool"}
ToolTags == {"weather", "math", "llm"}

DefaultResult == <<"An unexpected error occurred or no response from agent.">>

Queries == {<<"What is 2 + 2?">>, <<>>}
\* Final-answer texts the loop can produce (the empty text included).
Outputs == {<<"4">>, <<>>}
\* str(e) of the exceptions agent_executor.stream() can raise.
StreamErrors == {<<"model client: quota exceeded">>, <<"iteration limit exceeded">>, <<>>}

\* chunk["actions"][i]: an AgentAction naming a tool, or some other object.
ActionItems ==
    [isAgentAction : {TRUE}, tool : RegisteredTools \cup UnknownTools]
        \cup [isAgentAction : {FALSE}, tool : {"MathTool"}]

\* The lists found under "actions": empty, or one item (the stream hands
\* over one action per chunk).
ItemLists == {<<>>} \cup {<<i>> : i \in ActionItems}

NoActions == [present |-> FALSE, isList |-> FALSE, items |-> <<>>]
NoOutput == [present |-> FALSE, value |-> <<>>]
NoAgent == [present |-> FALSE, isAgentFinish |-> FALSE, hasOutput |-> FALSE, output |-> <<>>]

ActionsValues ==
    {NoActions, [present |-> TRUE, isList |-> FALSE, items |-> <<>>]}
        \cup {[present |-> TRUE, isList |-> TRUE, items |-> l] : l \in ItemLists}
OutputValues == {NoOutput} \cup {[present |-> TRUE, value |-> o] : o \in Outputs}
AgentValues ==
    {NoAgent,
     [present |-> TRUE, isAgentFinish |-> FALSE, hasOutput |-> FALSE, output |-> <<>>],
     [present |-> TRUE, isAgentFinish |-> TRUE, hasOutput |-> FALSE, output |-> <<>>]}
        \cup {[present |-> TRUE, isAgentFinish |-> TRUE, hasOutput |-> TRUE, output |-> o] : o \in Outputs}

\* The dictionaries the stream hands over: the keys the loop body reads.
\* A chunk carries "actions", or "output", or "agent", or none of them (a
\* "steps" chunk), or "actions" together with "output".
Chunks ==
    {[actions |-> a, output |-> NoOutput, agent |-> NoAgent] : a \in ActionsValues}
        \cup {[actions |-> NoActions, output |-> o, agent |-> NoAgent] : o \in OutputValues}
        \cup {[actions |-> NoActions, output |-> NoOutput, agent |-> g] : g \in AgentValues}
        \cup {[actions |-> a, output |-> o, agent |-> NoAgent] :
                a \in {v \in ActionsValues : v.isList /\ Len(v.items) = 1},
                o \in {v \in OutputValues : v.present}}

\* if "actions" in chunk and isinstance(chunk["actions"], list) and len(chunk["actions"]) > 0
HasActions(chunk) ==
    chunk.actions.present /\ chunk.actions.isList /\ Len(chunk.actions.items) > 0

\* The if / elif chain over tool_used_raw: an unmatched name leaves tool_used.
MapToolName(tool_used_raw, current) ==
    IF tool_used_raw = "WeatherTool" THEN "weather"
    ELSE IF tool_used_raw = "MathTool" THEN "math"
    ELSE IF tool_used_raw = "LLMTool" THEN "llm"
    ELSE current

\* IdentifyTool without the tool_identified guard: the last Action event wins.
IdentifyToolLastWins(chunk, loc) ==
    IF HasActions(chunk) /\ chunk.actions.items[1].isAgentAction
    THEN [tool_used |-> MapToolName(chunk.actions.items[1].tool, loc.tool_used),
          tool_identified |-> TRUE]
    ELSE loc

\* The "actions" block of the loop body, on the locals [tool_used, tool_identified].
IdentifyTool(chunk, loc) ==
    IF HasActions(chunk)
    THEN LET agent_action == chunk.actions.items[1]
         IN  IF ~loc.tool_identified /\ agent_action.isAgentAction
             THEN [tool_used |-> MapToolName(agent_action.tool, loc.tool_used),
                   tool_identified |-> TRUE]
             ELSE loc
    ELSE loc

\* How the loop body leaves the chunk: "output" (break on the "output" key),
\* "finish" (break on an AgentFinish under "agent"), "keyerror"
\* (return_values["output"] raises KeyError) or "next" (the loop goes on).
ChunkExit(chunk) ==
    IF chunk.output.present THEN "output"
    ELSE IF chunk.agent.present /\ chunk.agent.isAgentFinish
         THEN IF chunk.agent.hasOutput THEN "finish" ELSE "keyerror"
         ELSE "next"

ChunkResult(chunk) ==
    IF chunk.output.present THEN chunk.output.value ELSE chunk.agent.output

\* str(KeyError('output'))
KeyErrorText == <<"'output'">>

\* ExceptHandler without the reset of tool_used.
ExceptHandlerKeepsTool(e) ==
    [final_result |-> <<"An error occurred during agent execution: ">> \o e,
     tool_used |-> tool_used,
     escaped |-> FALSE]

\* The try block without its handler: the exception leaves the generator.
ExceptHandlerMissing(e) ==
    [final_result |-> final_result, tool_used |-> tool_used, escaped |-> TRUE]

\* except Exception as e: the locals after the handler, given str(e).
ExceptHandler(e) ==
    [final_result |-> <<"An error occurred during agent execution: ">> \o e,
     tool_used |-> "llm",
     escaped |-> FALSE]

\* yield json.dumps({...}) + "\n"
JsonLine(q, tool, result) ==
    [json |-> [query |-> q, tool_used |-> tool, result |-> result], terminator |-> "\n"]

InitAgentIdle ==
    /\ query = <<>>
    /\ pc = "idle"
    /\ tool_used = "llm"
    /\ final_result = DefaultResult
    /\ tool_identified = FALSE
    /\ chunks = <<>>
    /\ ending = "none"
    /\ emitted = <<>>
    /\ escaped = FALSE

InitMathIdle ==
    /\ expression = <<>>
    /\ given = [tokens |-> <<>>, layout |-> [lead |-> <<>>, sep |-> <<>>, trail |-> <<>>]]
    /\ mathPc = "idle"
    /\ mathOut = [type |-> "none", int |-> 0, float |-> [kind |-> "nan", neg |-> FALSE, ip |-> 0, frac |-> <<>>], text |-> <<>>]

InitToolsIdle ==
    /\ OPENWEATHER_API_KEY = <<>>
    /\ GOOGLE_API_KEY = <<>>
    /\ toolCalls = 0
    /\ httpRequests = <<>>
    /\ llmInvocations = <<>>
    /\ lastCall = [tool |-> "none"]

\* The generator has been created for a query and the loop is about to start.
InitAgent ==
    /\ query \in Queries
    /\ pc = "stream"
    /\ tool_used = "llm"
    /\ final_result = DefaultResult
    /\ tool_identified = FALSE
    /\ chunks = <<>>
    /\ ending = "none"
    /\ emitted = <<>>
    /\ escaped = FALSE
    /\ InitMathIdle
    /\ InitToolsIdle

\* One iteration of the for loop on a chunk that does not leave the loop.
NextChunk(chunk) ==
    /\ pc = "stream"
    /\ Len(chunks) < MaxChunks
    /\ ChunkExit(chunk) = "next"
    /\ LET loc == IdentifyTool(chunk, [tool_used |-> tool_used, tool_identified |-> tool_identified])
       IN  /\ tool_used' = loc.tool_used
           /\ tool_identified' = loc.tool_identified
    /\ chunks' = Append(chunks, chunk)
    /\ UNCHANGED <<query, pc, final_result, ending, emitted, escaped, mathVars, toolVars>>

\* The iteration on a chunk carrying the final answer: break, then the yield.
FinalChunk(chunk) ==
    /\ pc = "stream"
    /\ Len(chunks) < MaxChunks
    /\ ChunkExit(chunk) \in {"output", "finish"}
    /\ LET loc == IdentifyTool(chunk, [tool_used |-> tool_used, tool_identified |-> tool_identified])
       IN  /\ tool_used' = loc.tool_used
           /\ tool_identified' = loc.tool_identified
           /\ final_result' = ChunkResult(chunk)
           /\ emitted' = Append(emitted, JsonLine(query, loc.tool_used, ChunkResult(chunk)))
    /\ chunks' = Append(chunks, chunk)
    /\ ending' = ChunkExit(chunk)
    /\ pc' = "done"
    /\ UNCHANGED <<query, escaped, mathVars, toolVars>>

\* The stream is exhausted without a final answer: the loop ends, then the yield.
StreamExhausted ==
    /\ pc = "stream"
    /\ ending' = "exhausted"
    /\ emitted' = Append(emitted, JsonLine(query, tool_used, final_result))
    /\ pc' = "done"
    /\ UNCHANGED <<query, tool_used, final_result, tool_identified, chunks, escaped, mathVars, toolVars>>

\* An exception inside the try block, with text e: the handler, then the yield
\* unless the exception left the generator.
Abort(e) ==
    LET h == ExceptHandler(e)
    IN  /\ ending' = "exception"
        /\ escaped' = h.escaped
        /\ final_result' = h.final_result
        /\ tool_used' = h.tool_used
        /\ emitted' = IF h.escaped THEN emitted
                      ELSE Append(emitted, JsonLine(query, h.tool_used, h.final_result))
        /\ pc' = "done"

\* agent_executor.stream() raises instead of handing over a chunk.
StreamRaises(e) ==
    /\ pc = "stream"
    /\ Abort(e)
    /\ UNCHANGED <<query, tool_identified, chunks, mathVars, toolVars>>

\* The iteration on an AgentFinish whose return_values has no "output".
FinishWithoutOutput(chunk) ==
    /\ pc = "stream"
    /\ Len(chunks) < MaxChunks
    /\ ChunkExit(chunk) = "keyerror"
    /\ chunks' = Append(chunks, chunk)
    /\ LET loc == IdentifyTool(chunk, [tool_used |-> tool_used, tool_identified |-> tool_identified])
       IN  tool_identified' = loc.tool_identified
    /\ Abort(KeyErrorText)
    /\ UNCHANGED <<query, mathVars, toolVars>>

NextAgent ==
    \/ \E chunk \in Chunks : NextChunk(chunk)
    \/ \E chunk \in Chunks : FinalChunk(chunk)
    \/ StreamExhausted
    \/ \E e \in StreamErrors : StreamRaises(e)
    \/ \E chunk \in Chunks : FinishWithoutOutput(chunk)

SpecAgent == InitAgent /\ [][NextAgent]_vars

\* ------------------------------------------------------------------------
\* app/tools/math_tool.py
\* ------------------------------------------------------------------------
MaxOperand == 10  \* numerals of the inputs run over -MaxOperand..MaxOperand
MaxTokens == 4    \* longest token list of the inputs whose token count is not 3

\* Significant bits of a Python float (IEEE-754 binary64).
Precision == 53

Whitespace == {" ", "\t"}
DigitChars == <<"0", "1", "2", "3", "4", "5", "6", "7", "8", "9">>
DigitSet == {DigitChars[i] : i \in 1..10}
DigitValue(c) == (CHOOSE i \in 1..10 : DigitChars[i] = c) - 1

\* ---- str.strip().split(): the maximal runs of non-whitespace characters ----
RECURSIVE SplitFrom(_, _, _)
SplitFrom(s, cur, acc) ==
    IF s = <<>>
    THEN IF cur = <<>> THEN acc ELSE Append(acc, cur)
    ELSE IF Head(s) \in Whitespace
         THEN SplitFrom(Tail(s), <<>>, IF cur = <<>> THEN acc ELSE Append(acc, cur))
         ELSE SplitFrom(Tail(s), Append(cur, Head(s)), acc)

Split(s) == SplitFrom(s, <<>>, <<>>)

\* ---- Python floats ----
\* A finite float is sign * (ip + 0.frac), frac a sequence of bits; at most
\* Precision significant bits are kept.
Fin(neg, ip, frac) == [kind |-> "fin", neg |-> neg, ip |-> ip, frac |-> frac]
Inf(neg) == [kind |-> "inf", neg |-> neg, ip |-> 0, frac |-> <<>>]
NaN == [kind |-> "nan", neg |-> FALSE, ip |-> 0, frac |-> <<>>]

FromInt(n) == Fin(n < 0, IF n < 0 THEN -n ELSE n, <<>>)
AllZero(bits) == \A i \in 1..Len(bits) : bits[i] = 0
IsZero(x) == x.kind = "fin" /\ x.ip = 0 /\ AllZero(x.frac)
\* The value of a finite float without fractional part, as an integer.
ToInt(x) == IF x.neg THEN -x.ip ELSE x.ip
Negate(x) == IF x.kind = "nan" THEN x ELSE [x EXCEPT !.neg = ~x.neg]

RECURSIVE BitLength(_)
BitLength(n) == IF n = 0 THEN 0 ELSE 1 + BitLength(n \div 2)

RECURSIVE DecimalValue(_, _)
DecimalValue(digits, acc) ==
    IF digits = <<>> THEN acc
    ELSE DecimalValue(Tail(digits), 10 * acc + DigitValue(Head(digits)))

\* float(token), for tokens over digits, signs and letters (no ".", exponent
\* or "_"): [ok, value]; ok = FALSE is ValueError.
ParseFloat(token) ==
    LET signed == token # <<>> /\ Head(token) \in {"+", "-"}
        neg == signed /\ Head(token) = "-"
        body == IF signed THEN Tail(token) ELSE token
    IN  IF body # <<>> /\ \A i \in 1..Len(body) : body[i] \in DigitSet
        THEN [ok |-> TRUE, value |-> Fin(neg, DecimalValue(body, 0), <<>>)]
        ELSE IF body = <<"i", "n", "f">>
        THEN [ok |-> TRUE, value |-> Inf(neg)]
        ELSE IF body = <<"n", "a", "n">>
        THEN [ok |-> TRUE, value |-> NaN]
        ELSE [ok |-> FALSE, value |-> NaN]

\* Binary long division of r / b (0 <= r < b): the fraction bits up to the
\* point where sig significant bits have been produced, and the remainder.
RECURSIVE FracBits(_, _, _, _)
FracBits(r, b, sig, bits) ==
    IF r = 0 \/ sig >= Precision
    THEN [bits |-> bits, rem |-> r]
    ELSE LET bit == IF 2 * r >= b THEN 1 ELSE 0
         IN  FracBits(2 * r - bit * b, b,
                      IF sig > 0 \/ bit = 1 THEN sig + 1 ELSE 0,
                      Append(bits, bit))

\* ip + 0.bits plus one unit in the last place of bits.
RECURSIVE Increment(_, _)
Increment(ip, bits) ==
    IF bits = <<>> THEN [ip |-> ip + 1, bits |-> <<>>]
    ELSE LET n == Len(bits)
         IN  IF bits[n] = 0
             THEN [ip |-> ip, bits |-> [bits EXCEPT ![n] = 1]]
             ELSE LET up == Increment(ip, SubSeq(bits, 1, n - 1))
                  IN  [ip |-> up.ip, bits |-> Append(up.bits, 0)]

\* a / b for non-negative integers, b > 0, rounded to nearest, ties to even.
DivRound(neg, a, b) ==
    LET ip == a \div b
        d == FracBits(a % b, b, BitLength(ip), <<>>)
        lastBit == IF d.bits = <<>> THEN ip % 2 ELSE d.bits[Len(d.bits)]
        roundUp == 2 * d.rem > b \/ (2 * d.rem = b /\ lastBit = 1)
        up == Increment(ip, d.bits)
    IN  IF roundUp THEN Fin(neg, up.ip, up.bits) ELSE Fin(neg, ip, d.bits)

\* operator.add on floats (finite operands are integers here).
FloatAdd(x, y) ==
    IF x.kind = "nan" \/ y.kind = "nan" THEN NaN
    ELSE IF x.kind = "inf"
         THEN IF y.kind = "inf" /\ y.neg # x.neg THEN NaN ELSE x
    ELSE IF y.kind = "inf" THEN y
    ELSE FromInt(ToInt(x) + ToInt(y))

FloatSub(x, y) == FloatAdd(x, Negate(y))

FloatMul(x, y) ==
    IF x.kind = "nan" \/ y.kind = "nan" THEN NaN
    ELSE IF x.kind = "inf" \/ y.kind = "inf"
         THEN IF IsZero(x) \/ IsZero(y) THEN NaN ELSE Inf(x.neg # y.neg)
    ELSE FromInt(ToInt(x) * ToInt(y))

\* The floor division a plausible slip would use instead of truediv.
FloatFloorDiv(x, y) ==
    IF x.kind = "fin" /\ y.kind = "fin" /\ ~IsZero(y)
    THEN FromInt(ToInt(x) \div ToInt(y))
    ELSE NaN

\* operator.truediv on floats, the divisor not zero.
FloatTrueDiv(x, y) ==
    IF x.kind = "nan" \/ y.kind = "nan" THEN NaN
    ELSE IF x.kind = "inf"
         THEN IF y.kind = "inf" THEN NaN ELSE Inf(x.neg # y.neg)
    ELSE IF y.kind = "inf" THEN Fin(x.neg # y.neg, 0, <<>>)
    ELSE DivRound(x.neg # y.neg, x.ip, y.ip)

\* ops = {'+': ..., '-': ..., '*': ..., '/': ...}
SupportedOps == {<<"+">>, <<"-">>, <<"*">>, <<"/">>}

\* operation(num1, num2): [exc, value]; exc = "" when nothing is raised.
Operate(op_char, num1, num2) ==
    IF op_char = <<"+">> THEN [exc |-> "", value |-> FloatAdd(num1, num2)]
    ELSE IF op_char = <<"-">> THEN [exc |-> "", value |-> FloatSub(num1, num2)]
    ELSE IF op_char = <<"*">> THEN [exc |-> "", value |-> FloatMul(num1, num2)]
    ELSE IF IsZero(num2) THEN [exc |-> "ZeroDivisionError", value |-> NaN]
    ELSE [exc |-> "", value |-> FloatTrueDiv(num1, num2)]

\* What a call hands back: an int, a float, a string, or an exception.
IntResult(n) == [type |-> "int", int |-> n, float |-> NaN, text |-> <<>>]
FloatResult(x) == [type |-> "float", int |-> 0, float |-> x, text |-> <<>>]
StrResult(t) == [type |-> "str", int |-> 0, float |-> NaN, text |-> t]
Raised(exc) == [type |-> "raised", int |-> 0, float |-> NaN, text |-> <<exc>>]
NoResult == [type |-> "none", int |-> 0, float |-> NaN, text |-> <<>>]

FormatErrorText ==
    <<"Invalid math expression format. Expected 'number operator number' (e.g., '42 * 7').">>
InvalidNumbersText ==
    <<"Invalid numbers in expression. Please ensure numbers are valid (e.g., '10', '5.5').">>
DivisionByZeroText == <<"Division by zero is not allowed.">>
UnsupportedOperatorText(op_char) ==
    <<"Unsupported operator: '">> \o op_char \o <<"'. Only +, -, *, / are supported.">>
UnexpectedErrorText(e) ==
    <<"An unexpected error occurred during math evaluation: ", e>>

\* return int(result) if result == int(result) else result
\* int() raises ValueError on nan and OverflowError on an infinity.
WholeOrFloat(result) ==
    IF result.kind = "nan" THEN Raised("ValueError")
    ELSE IF result.kind = "inf" THEN Raised("OverflowError")
    ELSE IF AllZero(result.frac) THEN IntResult(ToInt(result))
    ELSE FloatResult(result)

\* The body of the try block on the three parts: what it returns, or what it raises.
TryBlock(parts) ==
    LET num1 == ParseFloat(parts[1])
        op_char == parts[2]
        num2 == ParseFloat(parts[3])
    IN  IF ~num1.ok \/ ~num2.ok THEN Raised("ValueError")
        ELSE IF op_char \notin SupportedOps THEN StrResult(UnsupportedOperatorText(op_char))
        ELSE LET r == Operate(op_char, num1.value, num2.value)
             IN  IF r.exc # "" THEN Raised(r.exc) ELSE WholeOrFloat(r.value)

\* The except clauses without the one for ZeroDivisionError and the catch-all.
ExceptClausesValueErrorOnly(out) ==
    IF out.type = "raised" /\ out.text = <<"ValueError">> THEN StrResult(InvalidNumbersText)
    ELSE out

\* except ValueError / except ZeroDivisionError / except Exception as e
ExceptClauses(out) ==
    IF out.type # "raised" THEN out
    ELSE IF out.text = <<"ValueError">> THEN StrResult(InvalidNumbersText)
    ELSE IF out.text = <<"ZeroDivisionError">> THEN StrResult(DivisionByZeroText)
    ELSE StrResult(UnexpectedErrorText("cannot convert float infinity to integer"))

evaluate_math_expression(expr) ==
    LET parts == Split(expr)
    IN  IF Len(parts) # 3 THEN StrResult(FormatErrorText)
        ELSE ExceptClauses(TryBlock(parts))

\* ---- the inputs ----
RECURSIVE Digits(_)
Digits(n) == IF n < 10 THEN <<DigitChars[n + 1]>> ELSE Append(Digits(n \div 10), DigitChars[(n % 10) + 1])
Numeral(n) == IF n < 0 THEN <<"-">> \o Digits(-n) ELSE Digits(n)

Numerals == {Numeral(n) : n \in -MaxOperand..MaxOperand}
InputTokens ==
    Numerals \cup {<<"i", "n", "f">>, <<"n", "a", "n">>, <<"a", "b", "c">>}
        \cup SupportedOps \cup {<<"^">>}
\* The tokens of the inputs whose token count is not 3.
FewTokens == {<<"7">>, <<"0">>, <<"/">>}

\* [lead, sep, trail]: the whitespace around and between the tokens.
Layouts ==
    {[lead |-> <<>>, sep |-> <<" ">>, trail |-> <<>>],
     [lead |-> <<" ">>, sep |-> <<" ", "\t">>, trail |-> <<" ">>],
     [lead |-> <<>>, sep |-> <<>>, trail |-> <<>>]}

RECURSIVE Join(_, _)
Join(tokens, sep) ==
    IF tokens = <<>> THEN <<>>
    ELSE IF Len(tokens) = 1 THEN tokens[1]
    ELSE tokens[1] \o sep \o Join(Tail(tokens), sep)

TokenLists ==
    [1..3 -> InputTokens] \cup UNION {[1..k -> FewTokens] : k \in (0..MaxTokens) \ {3}}

Written(ts, l) == l.lead \o Join(ts, l.sep) \o l.trail

\* evaluate_math_expression is about to be called on an expression.
InitMath ==
    /\ \E ts \in TokenLists, l \in Layouts :
          /\ given = [tokens |-> ts, layout |-> l]
          /\ expression = Written(ts, l)
    /\ mathPc = "call"
    /\ mathOut = NoResult
    /\ InitAgentIdle
    /\ InitToolsIdle

Evaluate ==
    /\ mathPc = "call"
    /\ mathOut' = evaluate_math_expression(expression)
    /\ mathPc' = "returned"
    /\ UNCHANGED <<expression, given, agentVars, toolVars>>

NextMath == Evaluate

SpecMath == InitMath /\ [][NextMath]_vars

\* ------------------------------------------------------------------------
\* app/tools/weather.py and app/tools/llm_tool.py
\* ------------------------------------------------------------------------
MaxCalls == 2  \* tool calls of one run of the process

WeatherPlaceholder == <<"YOUR_OPENWEATHER_API_KEY">>
GooglePlaceholder == <<"YOUR_GOOGLE_API_KEY">>
\* os.getenv(name, placeholder): the placeholder when the variable is unset,
\* else its value, which may be empty.
WeatherKeys == {WeatherPlaceholder, <<>>, <<"0123abcd">>}
GoogleKeys == {GooglePlaceholder, <<>>, <<"AIza-key">>}

OPENWEATHER_BASE_URL == "http://api.openweathermap.org/data/2.5/weather"

WeatherKeyNotice ==
    <<"Weather API key not configured. Please set OPENWEATHER_API_KEY in your environment.">>
GoogleKeyNotice ==
    <<"Google API key not configured for LLM. Please set GOOGLE_API_KEY in your environment.">>

\* The location argument of a call: omitted, empty, or a place name.
LocationArgs ==
    {[passed |-> FALSE, value |-> <<>>],
     [passed |-> TRUE, value |-> <<>>],
     [passed |-> TRUE, value |-> <<"Paris">>]}

\* def get_weather(location: str = "Chicago")
DefaultLocation(arg) == IF arg.passed THEN arg.value ELSE <<"Chicago">>

\* ---- what the provider can answer ----
\* A JSON object of the provider, by the fields get_weather reads.
\*   cod: "200" (the number 200), "404" (any other value), "absent"
\*   message: <<>> when absent
\*   main: "absent" | "null" | "temp" ({"temp": 21.5}) | "notemp" ({})
\*   weather: "absent" | "null" | "empty" ([]) | "desc" ([{"description": ...}]) | "nodesc" ([{}])
\*   name: <<>> when absent
\*   sys: "absent" | "null" | "country" ({"country": "FR"})
SuccessObjects ==
    [json : {"object"}, cod : {"200"}, message : {<<>>},
     main : {"absent", "null", "temp", "notemp"},
     weather : {"absent", "null", "empty", "desc", "nodesc"},
     name : {<<"Paris">>}, sys : {"country"}]
    \cup [json : {"object"}, cod : {"200"}, message : {<<>>},
          main : {"temp"}, weather : {"desc"},
          name : {<<>>, <<"Paris">>}, sys : {"absent", "null", "country"}]
ErrorObjects ==
    [json : {"object"}, cod : {"404", "absent"}, message : {<<>>, <<"city not found">>},
     main : {"absent"}, weather : {"absent"}, name : {<<>>}, sys : {"absent"}]
\* A body that is not JSON ("invalid"), or JSON that is no object.
OtherBodies ==
    [json : {"invalid", "list", "null"}, cod : {"absent"}, message : {<<>>},
     main : {"absent"}, weather : {"absent"}, name : {<<>>}, sys : {"absent"}]

\* requests.get: it raises (connection failure, timeout), or hands back a
\* response with a status and a body. jsonErrorIsRequestException: whether the
\* installed requests raises its own JSONDecodeError (a RequestException) or
\* a plain ValueError from response.json().
ProviderBehaviours ==
    [kind : {"raises"}, error : {<<"Connection refused">>, <<"Read timed out">>},
     status : {0}, reason : {<<>>}, body : {CHOOSE b \in OtherBodies : b.json = "null"},
     jsonErrorIsRequestException : {TRUE}]
    \cup [kind : {"response"}, error : {<<>>}, status : {200}, reason : {<<"OK">>},
          body : SuccessObjects \cup ErrorObjects \cup OtherBodies,
          jsonErrorIsRequestException : {TRUE}]
    \cup [kind : {"response"}, error : {<<>>}, status : {200}, reason : {<<"OK">>},
          body : {b \in OtherBodies : b.json = "invalid"},
          jsonErrorIsRequestException : {FALSE}]
    \cup [kind : {"response"}, error : {<<>>}, status : {404}, reason : {<<"Not Found">>},
          body : ErrorObjects \cup {b \in OtherBodies : b.json = "invalid"},
          jsonErrorIsRequestException : {TRUE}]
    \cup [kind : {"response"}, error : {<<>>}, status : {500}, reason : {<<"Internal Server Error">>},
          body : {b \in OtherBodies : b.json = "invalid"},
          jsonErrorIsRequestException : {TRUE}]

StatusText(status) ==
    IF status = 404 THEN "404" ELSE IF status = 500 THEN "500" ELSE "200"

\* str(e) of the HTTPError of response.raise_for_status(): the status line and
\* the URL of the request, nothing of the body.
HttpErrorText(p) ==
    <<StatusText(p.status), IF p.status < 500 THEN " Client Error: " ELSE " Server Error: ">>
        \o p.reason \o <<" for url: ", OPENWEATHER_BASE_URL>>

\* str(None) where a field is missing.
OrNone(text) == IF text = <<>> THEN <<"None">> ELSE text

\* The branch taken when data.get("cod") == 200.
FormatWeather(data) ==
    IF data.weather = "null" THEN Raised("TypeError")
    ELSE IF data.weather = "empty" THEN Raised("IndexError")
    ELSE IF data.main = "null" \/ data.sys = "null" THEN Raised("AttributeError")
    ELSE LET weather_description == IF data.weather = "desc" THEN "clear sky" ELSE "unknown"
             city_name == OrNone(data.name)
             country == IF data.sys = "country" THEN <<"FR">> ELSE <<"None">>
         IN  IF data.main = "temp"
             THEN StrResult(<<"It's ", "21.5", "°C and ", weather_description, " in ">>
                                \o city_name \o <<", ">> \o country \o <<".">>)
             ELSE StrResult(<<"Weather data available for ">> \o city_name \o <<", ">>
                                \o country \o <<", but temperature is missing.">>)

\* The body of the try block of get_weather, given what the provider does.
WeatherTry(location, p) ==
    IF p.kind = "raises" THEN Raised("RequestException")
    ELSE IF p.status >= 400 THEN Raised("HTTPError")
    ELSE IF p.body.json = "invalid"
         THEN (IF p.jsonErrorIsRequestException THEN Raised("RequestException") ELSE Raised("ValueError"))
    ELSE IF p.body.json # "object" THEN Raised("AttributeError")
    ELSE IF p.body.cod = "200" THEN FormatWeather(p.body)
    ELSE StrResult(<<"Could not retrieve weather for ">> \o location \o <<": ">>
                       \o (IF p.body.message = <<>> THEN <<"Unknown error from API">> ELSE p.body.message))

\* str(e) of what the try block raised.
WeatherErrorText(exc, p) ==
    IF exc = "HTTPError" THEN HttpErrorText(p)
    ELSE IF exc = "RequestException"
         THEN (IF p.kind = "raises" THEN p.error ELSE <<"Expecting value: line 1 column 1 (char 0)">>)
    ELSE IF exc = "ValueError" THEN <<"Expecting value: line 1 column 1 (char 0)">>
    ELSE IF exc = "IndexError" THEN <<"list index out of range">>
    ELSE IF exc = "TypeError" THEN <<"'NoneType' object is not subscriptable">>
    ELSE <<"object has no attribute 'get'">>

\* The except clauses of get_weather without the catch-all.
WeatherExceptNetworkOnly(out, location, p) ==
    IF out.type = "raised" /\ out.text[1] \in {"RequestException", "HTTPError"}
    THEN StrResult(<<"Error fetching weather for ">> \o location
                       \o <<": A network error occurred: ">> \o WeatherErrorText(out.text[1], p))
    ELSE out

\* except requests.exceptions.RequestException / except Exception
WeatherExcept(out, location, p) ==
    IF out.type # "raised" THEN out
    ELSE IF out.text[1] \in {"RequestException", "HTTPError"}
    THEN StrResult(<<"Error fetching weather for ">> \o location
                       \o <<": A network error occurred: ">> \o WeatherErrorText(out.text[1], p))
    ELSE StrResult(<<"An unexpected error occurred while processing weather data: ">>
                       \o WeatherErrorText(out.text[1], p))

\* A guard that only knows the placeholder.
KeyIsPlaceholder(key, placeholder) == key = placeholder

\* if not KEY or KEY == placeholder
KeyUnconfigured(key, placeholder) == key = <<>> \/ key = placeholder

\* get_weather(arg) while the provider behaves as p: the requests it issues
\* and what it hands back.
get_weather(arg, p) ==
    LET location == DefaultLocation(arg)
    IN  IF KeyUnconfigured(OPENWEATHER_API_KEY, WeatherPlaceholder)
        THEN [requests |-> <<>>, out |-> StrResult(WeatherKeyNotice)]
        ELSE [requests |-> <<[q |-> location, appid |-> OPENWEATHER_API_KEY, units |-> "metric"]>>,
              out |-> WeatherExcept(WeatherTry(location, p), location, p)]

\* ---- llm_tool.py ----
Prompts == {<<"Who wrote Hamlet?">>, <<>>}
\* llm.invoke: it hands back a message with a content, or raises.
ModelBehaviours ==
    [kind : {"content"}, text : {<<"William Shakespeare.">>, <<>>}]
        \cup [kind : {"raises"}, text : {<<"429 quota exceeded">>, <<>>}]

\* get_llm_response(prompt) while the model behaves as m: the invocations it
\* issues and what it hands back.
get_llm_response(prompt, m) ==
    IF KeyUnconfigured(GOOGLE_API_KEY, GooglePlaceholder)
    THEN [invocations |-> <<>>, out |-> StrResult(GoogleKeyNotice)]
    ELSE [invocations |-> <<prompt>>,
          out |-> IF m.kind = "content" THEN StrResult(m.text)
                  ELSE StrResult(<<"Error getting LLM response: ">> \o m.text)]

\* The modules have been imported: the keys are read from the environment.
InitTools ==
    /\ OPENWEATHER_API_KEY \in WeatherKeys
    /\ GOOGLE_API_KEY \in GoogleKeys
    /\ toolCalls = 0
    /\ httpRequests = <<>>
    /\ llmInvocations = <<>>
    /\ lastCall = [tool |-> "none"]
    /\ InitAgentIdle
    /\ InitMathIdle

CallWeather(arg, p) ==
    /\ toolCalls < MaxCalls
    /\ toolCalls' = toolCalls + 1
    /\ LET r == get_weather(arg, p)
       IN  /\ httpRequests' = httpRequests \o r.requests
           /\ lastCall' = [tool |-> "weather", arg |-> arg, provider |-> p,
                           outboundBefore |-> Len(httpRequests) + Len(llmInvocations),
                           out |-> r.out]
    /\ UNCHANGED <<OPENWEATHER_API_KEY, GOOGLE_API_KEY, llmInvocations, agentVars, mathVars>>

CallLLM(prompt, m) ==
    /\ toolCalls < MaxCalls
    /\ toolCalls' = toolCalls + 1
    /\ LET r == get_llm_response(prompt, m)
       IN  /\ llmInvocations' = llmInvocations \o r.invocations
           /\ lastCall' = [tool |-> "llm", prompt |-> prompt, model |-> m,
                           outboundBefore |-> Len(httpRequests) + Len(llmInvocations),
                           out |-> r.out]
    /\ UNCHANGED <<OPENWEATHER_API_KEY, GOOGLE_API_KEY, httpRequests, agentVars, mathVars>>

NextTools ==
    \/ \E arg \in LocationArgs, p \in ProviderBehaviours : CallWeather(arg, p)
    \/ \E prompt \in Prompts, m \in ModelBehaviours : CallLLM(prompt, m)

SpecTools == InitTools /\ [][NextTools]_vars

\* ------------------------------------------------------------------------
\* Properties of the Result Reporter
\* ------------------------------------------------------------------------
\* An Action event: a chunk whose "actions" list starts with an AgentAction.
IsActionEvent(chunk) ==
    /\ chunk.actions.present
    /\ chunk.actions.isList
    /\ chunk.actions.items # <<>>
    /\ chunk.actions.items[1].isAgentAction

ActionEventIndexes == {i \in 1..Len(chunks) : IsActionEvent(chunks[i])}

\* The tool of the first Action event observed, "none" when there is none.
FirstActionTool ==
    IF ActionEventIndexes = {} THEN "none"
    ELSE LET first == CHOOSE i \in ActionEventIndexes : \A j \in ActionEventIndexes : i <= j
         IN  chunks[first].actions.items[1].tool

\* The registered tools the Action events observed so far name.
InvokedRegisteredTools ==
    {chunks[i].actions.items[1].tool : i \in ActionEventIndexes} \cap RegisteredTools

PublicTag(tool) ==
    CASE tool = "WeatherTool" -> "weather"
      [] tool = "MathTool" -> "math"
      [] tool = "LLMTool" -> "llm"
      [] OTHER -> "llm"

ErrorPrefix == "An error occurred during agent execution: "

\* C1 as stated: however the run ends, the response's tool_used is the public
\* tag of the first Action event's tool, and "llm" when no Action event was
\* observed (runs whose first Action event names an unregistered tool are
\* left out: the claim gives them no tag).
C1_FirstToolHoweverItEnds ==
    (pc = "done" /\ FirstActionTool \in RegisteredTools \cup {"none"})
        => /\ Len(emitted) = 1
           /\ emitted[1].json.tool_used = PublicTag(FirstActionTool)

\* C1 amended: while the loop runs, and in the response of a run that ends by a
\* Final Answer or by exhaustion of the stream, tool_used is the public tag of
\* the first Action event's tool when that tool is one of the three registered
\* names, and "llm" when no Action event was observed or the first one names
\* another tool; later Action events never change it. The response of a run
\* that ends by an exception has tool_used = "llm".
C1_FirstToolUnlessException ==
    /\ pc = "stream" => tool_used = PublicTag(FirstActionTool)
    /\ pc = "done" =>
          /\ Len(emitted) = 1
          /\ emitted[1].json.tool_used =
                IF ending = "exception" THEN "llm" ELSE PublicTag(FirstActionTool)

\* C1 witness: a run ended by a Final Answer after Action events of two
\* different registered tools, reported with the tag of the first.
C1_Witness ==
    /\ pc = "done"
    /\ ending = "output"
    /\ FirstActionTool = "WeatherTool"
    /\ "MathTool" \in InvokedRegisteredTools
    /\ emitted[1].json.tool_used = "weather"

\* C2 as stated: a run that ends in a Final Answer and whose Action events name
\* MathTool as the only registered tool is reported with tool_used = "math"
\* (likewise WeatherTool and "weather"), whatever Action events naming an
\* unknown tool came before.
C2_OnlyToolInvokedIsReported ==
    (pc = "done" /\ ending \in {"output", "finish"})
        => /\ InvokedRegisteredTools = {"MathTool"} => emitted[1].json.tool_used = "math"
           /\ InvokedRegisteredTools = {"WeatherTool"} => emitted[1].json.tool_used = "weather"

C4_ExactlyOneResponse ==
    /\ pc = "stream" => (emitted = <<>> /\ ending = "none")
    /\ pc = "done" =>
          /\ ~escaped
          /\ ending \in {"output", "finish", "exhausted", "exception"}
          /\ Len(emitted) = 1
          /\ emitted[1].terminator = "\n"
          /\ emitted[1].json.query = query
          /\ emitted[1].json.tool_used \in ToolTags
          /\ ending = "output" => emitted[1].json.result = chunks[Len(chunks)].output.value
          /\ ending = "finish" => emitted[1].json.result = chunks[Len(chunks)].agent.output
          /\ ending = "exhausted" => emitted[1].json.result = DefaultResult
          /\ ending = "exception" =>
                /\ Len(emitted[1].json.result) >= 1
                /\ emitted[1].json.result[1] = ErrorPrefix

\* C4 witness: a run aborted by a KeyError on an AgentFinish without "output",
\* after other chunks, has emitted its one response.
C4_Witness ==
    /\ pc = "done"
    /\ ending = "exception"
    /\ Len(chunks) > 1
    /\ chunks[Len(chunks)].agent.isAgentFinish
    /\ Len(emitted) = 1

\* ------------------------------------------------------------------------
\* Properties of the Arithmetic Evaluator
\* ------------------------------------------------------------------------
\* The number of whitespace-separated tokens of the expression as written.
WrittenTokenCount ==
    IF given.layout.sep = <<>>
    THEN (IF given.tokens = <<>> THEN 0 ELSE 1)
    ELSE Len(given.tokens)

IntOf(token) == CHOOSE n \in -MaxOperand..MaxOperand : Numeral(n) = token
\* The tokens float() accepts.
IsNumberToken(token) == token \in Numerals \cup {<<"i", "n", "f">>, <<"n", "a", "n">>}

\* The expression is 'a op b': integers a and b, a supported operator, and a
\* non-zero b under '/'.
WellFormed ==
    /\ WrittenTokenCount = 3
    /\ given.tokens[1] \in Numerals
    /\ given.tokens[3] \in Numerals
    /\ given.tokens[2] \in SupportedOps
    /\ given.tokens[2] = <<"/">> => IntOf(given.tokens[3]) # 0

Abs(n) == IF n < 0 THEN -n ELSE n

\* The exact value of the expression as a fraction num / den, den > 0.
ExactNum ==
    LET a == IntOf(given.tokens[1])
        b == IntOf(given.tokens[3])
        op == given.tokens[2]
    IN  IF op = <<"+">> THEN a + b
        ELSE IF op = <<"-">> THEN a - b
        ELSE IF op = <<"*">> THEN a * b
        ELSE IF b < 0 THEN -a ELSE a
ExactDen ==
    IF given.tokens[2] = <<"/">> THEN Abs(IntOf(given.tokens[3])) ELSE 1

\* r/b - 0.bits, scaled by b * 2^Len(bits); left alone once it exceeds b in
\* magnitude, from where it can only grow.
RECURSIVE Residue(_, _, _)
Residue(r, b, bits) ==
    IF bits = <<>> \/ r > b \/ r < -b THEN r
    ELSE Residue(2 * r - Head(bits) * b, b, Tail(bits))

\* The distance between the returned number and num / den, in units of
\* 1 / (den * 2^(number of fraction bits)).
ResidueOf(out, num, den) ==
    IF out.type = "int" THEN Abs(num - out.int * den)
    ELSE Abs(Residue(Abs(num) - out.float.ip * den, den, out.float.frac))

SignAgrees(out, num) ==
    out.type = "float" => (out.float.kind = "fin" /\ (num # 0 => out.float.neg = (num < 0)))

IsExactly(out, num, den) == SignAgrees(out, num) /\ ResidueOf(out, num, den) = 0
IsNearest(out, num, den) == SignAgrees(out, num) /\ 2 * ResidueOf(out, num, den) <= den

RECURSIVE LeadingZeros(_)
LeadingZeros(bits) ==
    IF bits = <<>> \/ Head(bits) = 1 THEN 0 ELSE 1 + LeadingZeros(Tail(bits))
SignificantBits(x) ==
    IF x.ip > 0 THEN BitLength(x.ip) + Len(x.frac) ELSE Len(x.frac) - LeadingZeros(x.frac)

RECURSIVE Gcd(_, _)
Gcd(m, n) == IF n = 0 THEN m ELSE Gcd(n, m % n)
RECURSIVE IsPowerOfTwo(_)
IsPowerOfTwo(n) == n = 1 \/ (n > 1 /\ n % 2 = 0 /\ IsPowerOfTwo(n \div 2))
\* num / den has a finite binary expansion.
IsDyadic(num, den) == IsPowerOfTwo(den \div Gcd(Abs(num), den))

C6_NeverRaises ==
    mathPc = "returned" =>
        /\ mathOut.type \in {"int", "float", "str"}
        /\ mathOut.type = "str" => mathOut.text # <<>>
        /\ WrittenTokenCount # 3 => (mathOut.type = "str" /\ mathOut.text = FormatErrorText)
        /\ WrittenTokenCount = 3 =>
              LET a == given.tokens[1]
                  op == given.tokens[2]
                  b == given.tokens[3]
              IN  IF ~IsNumberToken(a) \/ ~IsNumberToken(b)
                  THEN mathOut.type = "str" /\ mathOut.text = InvalidNumbersText
                  ELSE IF op \notin {<<"+">>, <<"-">>, <<"*">>, <<"/">>}
                  THEN /\ mathOut.type = "str"
                       /\ mathOut.text = <<"Unsupported operator: '">> \o op \o <<"'. Only +, -, *, / are supported.">>
                  ELSE (op = <<"/">> /\ b \in {<<"0">>, <<"-", "0">>})
                          => (mathOut.type = "str" /\ mathOut.text = DivisionByZeroText)

\* C6 witness: '7 / 0' has returned the division-by-zero error string.
C6_Witness ==
    /\ mathPc = "returned"
    /\ WrittenTokenCount = 3
    /\ given.tokens = <<<<"7">>, <<"/">>, <<"0">>>>
    /\ mathOut.type = "str"
    /\ mathOut.text = DivisionByZeroText

\* ------------------------------------------------------------------------
\* Properties of the Weather Lookup and of the General Answer Generator
\* ------------------------------------------------------------------------
OutboundCalls == Len(httpRequests) + Len(llmInvocations)

WeatherKeyMissing == OPENWEATHER_API_KEY = <<>> \/ OPENWEATHER_API_KEY = <<"YOUR_OPENWEATHER_API_KEY">>
GoogleKeyMissing == GOOGLE_API_KEY = <<>> \/ GOOGLE_API_KEY = <<"YOUR_GOOGLE_API_KEY">>

Contains(text, fragment) == \E i \in 1..Len(text) : text[i] = fragment

\* C7: with its key empty or equal to the placeholder, a call of get_weather
\* (of get_llm_response) returns the key-configuration notice and leaves the
\* number of outbound calls as it was before the call.
C7_NoCallWithoutKey ==
    /\ (lastCall.tool = "weather" /\ WeatherKeyMissing)
          => /\ lastCall.out.type = "str"
             /\ lastCall.out.text = WeatherKeyNotice
             /\ OutboundCalls = lastCall.outboundBefore
    /\ (lastCall.tool = "llm" /\ GoogleKeyMissing)
          => /\ lastCall.out.type = "str"
             /\ lastCall.out.text = GoogleKeyNotice
             /\ OutboundCalls = lastCall.outboundBefore

\* C7 witness: after one model invocation, get_weather was called with an
\* empty weather key and returned the notice; the one invocation is still
\* the only outbound call.
C7_Witness ==
    /\ lastCall.tool = "weather"
    /\ OPENWEATHER_API_KEY = <<>>
    /\ toolCalls = 2
    /\ Len(llmInvocations) = 1
    /\ httpRequests = <<>>
    /\ lastCall.out.text = WeatherKeyNotice

\* C8 as stated: when the provider answers with a non-success HTTP status or
\* with an error code in its JSON object, and the object carries a message,
\* the string get_weather returns contains that message.
C8_ProviderMessageIncorporated ==
    (/\ lastCall.tool = "weather"
     /\ ~WeatherKeyMissing
     /\ lastCall.provider.kind = "response"
     /\ lastCall.provider.body.json = "object"
     /\ lastCall.provider.status >= 400 \/ lastCall.provider.body.cod # "200"
     /\ lastCall.provider.body.message # <<>>)
        => /\ lastCall.out.type = "str"
           /\ Contains(lastCall.out.text, lastCall.provider.body.message[1])

\* C9: whatever the location and whatever the provider does, a call of
\* get_weather returns a non-empty string; it never raises.
C9_WeatherNeverRaises ==
    lastCall.tool = "weather" => (lastCall.out.type = "str" /\ lastCall.out.text # <<>>)

\* C9 witness: the provider answered 200 with an empty weather list and the
\* call returned the unexpected-error string.
C9_Witness ==
    /\ lastCall.tool = "weather"
    /\ ~WeatherKeyMissing
    /\ lastCall.provider.kind = "response"
    /\ lastCall.provider.status = 200
    /\ lastCall.provider.body.cod = "200"
    /\ lastCall.provider.body.weather = "empty"
    /\ lastCall.out.type = "str"
    /\ lastCall.out.text[1] = "An unexpected error occurred while processing weather data: "

\* C10 as stated: a call of get_weather with an empty location, or with no
\* location, issues one request, and that request queries "Chicago".
C10_EmptyLocationQueriesChicago ==
    (/\ lastCall.tool = "weather"
     /\ ~WeatherKeyMissing
     /\ lastCall.arg.value = <<>>)
        => /\ OutboundCalls = lastCall.outboundBefore + 1
           /\ httpRequests # <<>>
           /\ httpRequests[Len(httpRequests)].q = <<"Chicago">>

====
